---- MODULE Spec2Model ----
(***************************************************************************)
(* A model of shared/utils/ProsemirrorHelper.ts: the analyses and the trim *)
(* transform over a ProseMirror document.                                  *)
(*                                                                         *)
(* A node is a record                                                      *)
(*   [type, text, marks, level, checked, content]                          *)
(* with text a sequence of one-character strings (only for "text" nodes),  *)
(* marks a sequence of marks [type, id, userId], level and checked the     *)
(* attrs of headings and checkbox items, content the ordered children.     *)
(***************************************************************************)
EXTENDS Integers, Sequences, FiniteSets, TLC

VARIABLES
    op,            \* which static method of ProsemirrorHelper is being called
    doc,           \* the argument of the current call (NULL: an absent document)
    schema,        \* the node type names whose spec declares toPlainText
    pc,            \* the position inside the current call
    index,         \* trim: let index
    start,         \* trim: let start
    end,           \* trim: let end
    nodeIsEmpty,   \* trim: let isEmpty
    previouslySeen,\* getHeadings: const previouslySeen
    headings,      \* getHeadings: const headings
    pending,       \* descendants: the nodes still to be handed to the callback, in order
    comments,      \* getComments: const comments
    tasks,         \* getTasks: const tasks
    ret,           \* the value the current call returned
    input,         \* the document the first call was given
    ret1,          \* what the first call returned, once a second call is made
    pass           \* 1 for the first call, 2 for the second

vars == <<op, doc, schema, pc, index, start, end, nodeIsEmpty, previouslySeen,
          headings, pending, comments, tasks, ret, input, ret1, pass>>

trimLocals == <<index, start, end, nodeIsEmpty>>
walkLocals == <<previouslySeen, headings, pending, comments, tasks>>

NULL == [type |-> "null"]

----------------------------------------------------------------------------
(* Bounds of the model *)

MaxChildren == 4

----------------------------------------------------------------------------
(* The tree: prosemirror-model's Node, as ProsemirrorHelper uses it *)

MkNode(t, txt, mk, lvl, chk, c) ==
    [type |-> t, text |-> txt, marks |-> mk, level |-> lvl, checked |-> chk, content |-> c]

TextNode(txt, mk) == MkNode("text", txt, mk, 0, FALSE, <<>>)
Mention(mk) == MkNode("mention", <<>>, mk, 0, FALSE, <<>>)
Hr == MkNode("hr", <<>>, <<>>, 0, FALSE, <<>>)
Paragraph(c) == MkNode("paragraph", <<>>, <<>>, 0, FALSE, c)
HeadingNode(lvl, c) == MkNode("heading", <<>>, <<>>, lvl, FALSE, c)
CheckboxItem(chk, c) == MkNode("checkbox_item", <<>>, <<>>, 0, chk, c)
CheckboxList(c) == MkNode("checkbox_list", <<>>, <<>>, 0, FALSE, c)
Doc(c) == MkNode("doc", <<>>, <<>>, 0, FALSE, c)

isText(n) == n.type = "text"
isLeaf(n) == n.type \in {"text", "mention", "hr"}
isBlock(n) == n.type \in {"paragraph", "heading", "checkbox_list", "checkbox_item", "hr"}
isTextblock(n) == n.type \in {"paragraph", "heading"}

RECURSIVE Flatten(_)
Flatten(ss) == IF ss = <<>> THEN <<>> ELSE Head(ss) \o Flatten(Tail(ss))

RECURSIVE nodeSize(_)
nodeSize(n) ==
    IF isText(n) THEN Len(n.text)
    ELSE IF isLeaf(n) THEN 1
    ELSE 2 + Len(Flatten([i \in 1..Len(n.content) |->
                            [k \in 1..nodeSize(n.content[i]) |-> 1]]))

contentSize(n) == nodeSize(n) - 2

childCount(n) == Len(n.content)

\* index is 0-based, as in the source
maybeChild(n, i) == IF i >= 0 /\ i < Len(n.content) THEN n.content[i + 1] ELSE NULL

RECURSIVE textContent(_)
textContent(n) ==
    IF isText(n) THEN n.text
    ELSE Flatten([i \in 1..Len(n.content) |-> textContent(n.content[i])])

isWhitespace(c) == c \in {" ", "\n"}

RECURSIVE TrimLeft(_)
TrimLeft(s) == IF s # <<>> /\ isWhitespace(Head(s)) THEN TrimLeft(Tail(s)) ELSE s

RECURSIVE TrimRight(_)
TrimRight(s) ==
    IF s # <<>> /\ isWhitespace(s[Len(s)]) THEN TrimRight(SubSeq(s, 1, Len(s) - 1)) ELSE s

\* String.prototype.trim
StrTrim(s) == TrimRight(TrimLeft(s))

Min(a, b) == IF a < b THEN a ELSE b
Max(a, b) == IF a > b THEN a ELSE b

\* Node.cut / Fragment.cut: the children overlapping [from, to), the two at the
\* borders cut in turn; an empty fragment unless to > from.
RECURSIVE CutFrom(_, _, _, _)
RECURSIVE cut(_, _, _)
CutFrom(children, pos, from, to) ==
    IF children = <<>> \/ pos >= to THEN <<>>
    ELSE LET child == Head(children)
             e == pos + nodeSize(child)
             kept == IF e > from
                     THEN IF pos < from \/ e > to
                          THEN IF isText(child)
                               THEN <<[child EXCEPT !.text =
                                        SubSeq(child.text, Max(0, from - pos) + 1,
                                               Min(Len(child.text), to - pos))]>>
                               ELSE <<cut(child, Max(0, from - pos - 1),
                                          Min(contentSize(child), to - pos - 1))>>
                          ELSE <<child>>
                     ELSE <<>>
         IN kept \o CutFrom(Tail(children), e, from, to)
cut(n, from, to) ==
    IF isLeaf(n) THEN n
    ELSE IF from = 0 /\ to = contentSize(n) THEN n
    ELSE [n EXCEPT !.content = IF to > from THEN CutFrom(n.content, 0, from, to) ELSE <<>>]

----------------------------------------------------------------------------
(* toPlainText *)

\* What a node type's spec.toPlainText returns for a node of that type.
PlainTextOf(name) ==
    CASE name = "mention" -> <<"@", "m">>
      [] name = "hr" -> <<"-", "-", "-">>
      [] OTHER -> <<>>

\* editor/lib/textBetween: a walk over the descendants of root (never root itself)
\* threading the text so far and whether a block has been opened yet.
RECURSIVE WalkNodes(_, _, _)
RECURSIVE WalkNode(_, _, _)
WalkNodes(nodes, acc, textSerializers) ==
    IF nodes = <<>> THEN acc
    ELSE WalkNodes(Tail(nodes), WalkNode(Head(nodes), acc, textSerializers), textSerializers)
WalkNode(n, acc, textSerializers) ==
    LET custom == n.type \in DOMAIN textSerializers
        nodeText == IF custom THEN textSerializers[n.type]
                    ELSE IF isText(n) THEN n.text ELSE <<>>
        opens == isBlock(n) /\ ((isLeaf(n) /\ nodeText # <<>>) \/ isTextblock(n))
        sep == IF opens /\ ~acc.first THEN <<"\n">> ELSE <<>>
        acc1 == [text |-> acc.text \o sep \o nodeText, first |-> acc.first /\ ~opens]
    IN IF custom THEN acc1 ELSE WalkNodes(n.content, acc1, textSerializers)

textBetween(root, textSerializers) ==
    WalkNodes(root.content, [text |-> <<>>, first |-> TRUE], textSerializers).text

toPlainText(root, sch) ==
    LET textSerializers == [name \in sch |-> PlainTextOf(name)]
    IN textBetween(root, textSerializers)

----------------------------------------------------------------------------
(* trim *)

\* A variant of ChildIsEmpty that compares the plain text without trimming it.
ChildIsEmptyUntrimmed(node, sch) == toPlainText(node, sch) = <<>>

\* The test both scans of trim apply to a top-level child.
ChildIsEmpty(node, sch) == StrTrim(toPlainText(node, sch)) = <<>>

\* The documents trim is called with: 1..MaxChildren top-level blocks.
TrimChildren ==
    { Paragraph(<<>>),
      Paragraph(<<TextNode(<<" ">>, <<>>)>>),
      Paragraph(<<TextNode(<<"a">>, <<>>)>>),
      Paragraph(<<TextNode(<<"b", " ">>, <<>>)>>),
      Paragraph(<<Mention(<<>>)>>),
      Hr }

SeqsUpTo(S, n) == UNION { [1..k -> S] : k \in 1..n }

TrimDocs == { Doc(c) : c \in SeqsUpTo(TrimChildren, MaxChildren) }

Schemas == { {}, {"mention"}, {"mention", "hr"} }

InitTrim ==
    /\ op = "trim"
    /\ doc \in TrimDocs
    /\ schema \in Schemas
    /\ pc = "call"
    /\ index = 0 /\ start = 0 /\ end = 0 /\ nodeIsEmpty = FALSE
    /\ previouslySeen = <<>> /\ headings = <<>>
    /\ pending = <<>> /\ comments = <<>> /\ tasks = <<>>
    /\ ret = NULL /\ input = doc /\ ret1 = NULL /\ pass = 1

\* lines 78-88: the locals, and the early return for at most one child
TrimEnter ==
    /\ op = "trim" /\ pc = "call"
    /\ index' = 0
    /\ start' = 0
    /\ end' = nodeSize(doc) - 2
    /\ IF childCount(doc) <= 1
       THEN /\ ret' = doc
            /\ pc' = "done"
            /\ nodeIsEmpty' = nodeIsEmpty
       ELSE /\ nodeIsEmpty' = TRUE
            /\ pc' = "forward"
            /\ ret' = ret
    /\ UNCHANGED <<op, doc, schema, walkLocals, input, ret1, pass>>

\* A variant of ForwardStep that is an `if` in place of the `while`: the scan
\* ends after its first child, empty or not.
ForwardStepOnce ==
    /\ op = "trim" /\ pc = "forward" /\ nodeIsEmpty
    /\ LET node == maybeChild(doc, index)
       IN /\ node # NULL
          /\ index' = index + 1
          /\ nodeIsEmpty' = FALSE
          /\ start' = IF ChildIsEmpty(node, schema) THEN start + nodeSize(node) ELSE start
    /\ UNCHANGED <<op, doc, schema, pc, end, walkLocals, ret, input, ret1, pass>>

\* lines 89-98: one iteration of the forward scan that finds a child
ForwardStep ==
    /\ op = "trim" /\ pc = "forward" /\ nodeIsEmpty
    /\ LET node == maybeChild(doc, index)
       IN /\ node # NULL
          /\ index' = index + 1
          /\ nodeIsEmpty' = ChildIsEmpty(node, schema)
          /\ start' = IF ChildIsEmpty(node, schema) THEN start + nodeSize(node) ELSE start
    /\ UNCHANGED <<op, doc, schema, pc, end, walkLocals, ret, input, ret1, pass>>

\* lines 89-92, 100-101: the forward scan ends (a non-empty child, or no child left)
ForwardEnd ==
    /\ op = "trim" /\ pc = "forward"
    /\ ~nodeIsEmpty \/ maybeChild(doc, index) = NULL
    /\ index' = childCount(doc) - 1
    /\ nodeIsEmpty' = TRUE
    /\ pc' = "backward"
    /\ UNCHANGED <<op, doc, schema, start, end, walkLocals, ret, input, ret1, pass>>

\* A variant of BackwardStep that moves end back for every child it inspects.
BackwardStepAlways ==
    /\ op = "trim" /\ pc = "backward" /\ nodeIsEmpty
    /\ LET node == maybeChild(doc, index)
       IN /\ node # NULL
          /\ index' = index - 1
          /\ nodeIsEmpty' = ChildIsEmpty(node, schema)
          /\ end' = end - nodeSize(node)
    /\ UNCHANGED <<op, doc, schema, pc, start, walkLocals, ret, input, ret1, pass>>

\* lines 102-111: one iteration of the backward scan that finds a child
BackwardStep ==
    /\ op = "trim" /\ pc = "backward" /\ nodeIsEmpty
    /\ LET node == maybeChild(doc, index)
       IN /\ node # NULL
          /\ index' = index - 1
          /\ nodeIsEmpty' = ChildIsEmpty(node, schema)
          /\ end' = IF ChildIsEmpty(node, schema) THEN end - nodeSize(node) ELSE end
    /\ UNCHANGED <<op, doc, schema, pc, start, walkLocals, ret, input, ret1, pass>>

\* lines 102-105, 113: the backward scan ends and the document is cut
TrimCut ==
    /\ op = "trim" /\ pc = "backward"
    /\ ~nodeIsEmpty \/ maybeChild(doc, index) = NULL
    /\ ret' = cut(doc, start, end)
    /\ pc' = "done"
    /\ UNCHANGED <<op, doc, schema, index, start, end, nodeIsEmpty, walkLocals, input, ret1, pass>>

\* The caller applies trim to what trim returned.
TrimAgain ==
    /\ op = "trim" /\ pc = "done" /\ pass = 1
    /\ ret1' = ret
    /\ doc' = ret
    /\ pass' = 2
    /\ pc' = "call"
    /\ UNCHANGED <<op, schema, index, start, end, nodeIsEmpty, walkLocals, ret, input>>

NextTrim ==
    \/ TrimEnter
    \/ ForwardStep
    \/ ForwardEnd
    \/ BackwardStep
    \/ TrimCut
    \/ TrimAgain

SpecTrim == InitTrim /\ [][NextTrim]_vars

----------------------------------------------------------------------------
(* Properties of trim *)

NonEmptyChildren(d, sch) ==
    { i \in 1..Len(d.content) : StrTrim(toPlainText(d.content[i], sch)) # <<>> }

FirstNonEmpty(d, sch) ==
    CHOOSE i \in NonEmptyChildren(d, sch) : \A j \in NonEmptyChildren(d, sch) : i <= j

LastNonEmpty(d, sch) ==
    CHOOSE i \in NonEmptyChildren(d, sch) : \A j \in NonEmptyChildren(d, sch) : i >= j

TrimReturned == op = "trim" /\ pc = "done"

\* C2: trim is idempotent: once trim has been applied to a document and then to
\* its own result, the second result equals the first, whatever the children
\* of the document are (all of them empty included).
C2_TrimIdempotent ==
    (TrimReturned /\ pass = 2) => ret = ret1

\* The second call has returned for a document of at least two children, all empty.
C2_Witness ==
    /\ TrimReturned /\ pass = 2
    /\ childCount(input) >= 2
    /\ NonEmptyChildren(input, schema) = {}
    /\ ret = ret1

\* C3: for a document of at least two top-level children, at least one of them
\* non-empty, trim returns exactly the children from the first non-empty one
\* through the last non-empty one, in order.
C3_TrimKeepsRun ==
    (TrimReturned /\ pass = 1 /\ childCount(input) >= 2
        /\ NonEmptyChildren(input, schema) # {})
    => ret = Doc(SubSeq(input.content, FirstNonEmpty(input, schema),
                        LastNonEmpty(input, schema)))

\* [empty, "a", empty]: trim has returned the one child holding "a".
C3_Witness ==
    /\ TrimReturned /\ pass = 1
    /\ input = Doc(<<Paragraph(<<>>), Paragraph(<<TextNode(<<"a">>, <<>>)>>), Paragraph(<<>>)>>)
    /\ ret = Doc(<<Paragraph(<<TextNode(<<"a">>, <<>>)>>)>>)

\* C5: if the first and the last top-level child are both non-empty, trim
\* returns the document itself: the forward scan stops at the first child with
\* start 0, the backward scan at the last child with end the content size.
C5_TrimNoOp ==
    (op = "trim" /\ pass = 1 /\ childCount(doc) >= 1
        /\ {1, childCount(doc)} \subseteq NonEmptyChildren(doc, schema))
    => /\ pc = "forward" => start = 0 /\ index <= 1
       /\ pc = "backward" => start = 0 /\ end = contentSize(doc)
                             /\ index >= childCount(doc) - 2
       /\ pc = "done" => ret = doc /\ start = 0 /\ end = contentSize(doc)

\* Both borders non-empty, an empty child in between, and trim has returned.
C5_Witness ==
    /\ TrimReturned /\ pass = 1
    /\ childCount(input) = 3
    /\ NonEmptyChildren(input, schema) = {1, 3}
    /\ ret = input

\* C9: trim never returns a document without top-level children, and the start
\* offset it computes is never greater than the end offset.
C9_TrimNeverEmpty ==
    (TrimReturned /\ pass = 1) => childCount(ret) >= 1 /\ start <= end

----------------------------------------------------------------------------
(* isEmpty, getEmptyDocument *)

\* lines 43-53, as the document node the JSON stands for
getEmptyDocument == Doc(<<Paragraph(<<>>)>>)

\* A variant of isEmpty that compares the text content without trimming it.
isEmptyUntrimmed(d) == d = NULL \/ textContent(d) = <<>>

\* lines 121-123
isEmpty(d) == d = NULL \/ StrTrim(textContent(d)) = <<>>

InitEmpty ==
    /\ op = "isEmpty"
    /\ doc \in TrimDocs \cup {getEmptyDocument, NULL}
    /\ schema \in Schemas
    /\ pc = "call"
    /\ index = 0 /\ start = 0 /\ end = 0 /\ nodeIsEmpty = FALSE
    /\ previouslySeen = <<>> /\ headings = <<>>
    /\ pending = <<>> /\ comments = <<>> /\ tasks = <<>>
    /\ ret = NULL /\ input = doc /\ ret1 = NULL /\ pass = 1

IsEmptyCall ==
    /\ op = "isEmpty" /\ pc = "call"
    /\ ret' = isEmpty(doc)
    /\ pc' = "done"
    /\ UNCHANGED <<op, doc, schema, trimLocals, walkLocals, input, ret1, pass>>

\* The caller then asks for the plain text of the same document (lines 62-70);
\* toPlainText reads root.content, so it is only called with a document.
ToPlainTextCall ==
    /\ op = "isEmpty" /\ pc = "done" /\ pass = 1
    /\ doc # NULL
    /\ ret1' = ret
    /\ ret' = toPlainText(doc, schema)
    /\ op' = "toPlainText"
    /\ pass' = 2
    /\ UNCHANGED <<doc, schema, pc, trimLocals, walkLocals, input>>

NextEmpty ==
    \/ IsEmptyCall
    \/ ToPlainTextCall

SpecEmpty == InitEmpty /\ [][NextEmpty]_vars

\* The type names of the descendants of a node (the nodes toPlainText walks).
RECURSIVE TypesUnder(_)
TypesUnder(n) ==
    UNION { {n.content[i].type} \cup TypesUnder(n.content[i]) : i \in 1..Len(n.content) }

BothReturned == op = "toPlainText" /\ pc = "done"

\* C4 as stated: isEmpty(D) is true exactly when toPlainText(D, schema) trimmed
\* is the empty string, whatever serializers the schema declares; isEmpty of an
\* absent document and of getEmptyDocument() is true.
C4_EmptyIffPlainTextEmpty ==
    /\ (op = "isEmpty" /\ pc = "done" /\ doc \in {NULL, getEmptyDocument}) => ret = TRUE
    /\ BothReturned => (ret1 <=> StrTrim(ret) = <<>>)

\* C4 amended: the equivalence holds for the documents none of whose nodes is of
\* a type with a custom serializer; isEmpty of an absent document and of
\* getEmptyDocument() is true.
C4_EmptyIffPlainTextEmptyNoSerializer ==
    /\ (op = "isEmpty" /\ pc = "done" /\ doc \in {NULL, getEmptyDocument}) => ret = TRUE
    /\ (BothReturned /\ TypesUnder(doc) \cap schema = {})
       => (ret1 <=> StrTrim(ret) = <<>>)

\* A document of several blocks holding only whitespace, under a schema with
\* serializers none of which it uses: empty, with a plain text of whitespace.
C4_Witness ==
    /\ BothReturned
    /\ schema # {} /\ TypesUnder(doc) \cap schema = {}
    /\ childCount(doc) >= 2
    /\ ret1 = TRUE /\ ret # <<>> /\ StrTrim(ret) = <<>>

----------------------------------------------------------------------------
(* Node.descendants, getComments *)

\* The documents of the traversals: paragraphs of marked text, and checklists.
CommentA == [type |-> "comment", id |-> "a", userId |-> "u1"]
CommentB == [type |-> "comment", id |-> "b", userId |-> "u2"]
Bold == [type |-> "strong", id |-> "", userId |-> ""]

CommentChildren ==
    { Paragraph(<<TextNode(<<"x">>, <<CommentA>>)>>),
      Paragraph(<<TextNode(<<"x", "y">>, <<CommentA, CommentB>>)>>),
      Paragraph(<<TextNode(<<"y">>, <<Bold>>), TextNode(<<"z">>, <<Bold, CommentB>>)>>),
      Paragraph(<<Mention(<<CommentA>>), TextNode(<<"y">>, <<>>)>>),
      CheckboxList(<<CheckboxItem(FALSE,
          <<Paragraph(<<TextNode(<<"x">>, <<CommentB>>), TextNode(<<"z">>, <<CommentB>>)>>)>>)>>) }

CommentDocs == { Doc(c) : c \in SeqsUpTo(CommentChildren, MaxChildren) }

InitComments ==
    /\ op = "getComments"
    /\ doc \in CommentDocs
    /\ schema = {}
    /\ pc = "call"
    /\ index = 0 /\ start = 0 /\ end = 0 /\ nodeIsEmpty = FALSE
    /\ previouslySeen = <<>> /\ headings = <<>>
    /\ pending = <<>> /\ comments = <<>> /\ tasks = <<>>
    /\ ret = NULL /\ input = doc /\ ret1 = NULL /\ pass = 1

\* lines 132-134: doc.descendants starts from the children of doc
GetCommentsEnter ==
    /\ op = "getComments" /\ pc = "call"
    /\ comments' = <<>>
    /\ pending' = doc.content
    /\ pc' = "walk"
    /\ UNCHANGED <<op, doc, schema, trimLocals, previouslySeen, headings, tasks,
                   ret, input, ret1, pass>>

\* lines 135-142: what the callback pushes for one node
CommentsOf(node) ==
    LET isComment(mark) == mark.type = "comment"
        entry(mark) == [id |-> mark.id, userId |-> mark.userId, text |-> textContent(node)]
        own == SelectSeq(node.marks, isComment)
    IN [i \in 1..Len(own) |-> entry(own[i])]

\* A variant of GetCommentsVisit that skips a comment whose id was pushed before.
GetCommentsVisitDedup ==
    /\ op = "getComments" /\ pc = "walk" /\ pending # <<>>
    /\ LET node == Head(pending)
           isNew(c) == \A i \in 1..Len(comments) : comments[i].id # c.id
       IN /\ comments' = comments \o SelectSeq(CommentsOf(node), isNew)
          /\ pending' = node.content \o Tail(pending)
    /\ UNCHANGED <<op, doc, schema, pc, trimLocals, previouslySeen, headings, tasks,
                   ret, input, ret1, pass>>

\* lines 134-145: the callback on the next node in document order; it returns
\* true, so the node's children come next
GetCommentsVisit ==
    /\ op = "getComments" /\ pc = "walk" /\ pending # <<>>
    /\ LET node == Head(pending)
       IN /\ comments' = comments \o CommentsOf(node)
          /\ pending' = node.content \o Tail(pending)
    /\ UNCHANGED <<op, doc, schema, pc, trimLocals, previouslySeen, headings, tasks,
                   ret, input, ret1, pass>>

\* line 147
GetCommentsReturn ==
    /\ op = "getComments" /\ pc = "walk" /\ pending = <<>>
    /\ ret' = comments
    /\ pc' = "done"
    /\ UNCHANGED <<op, doc, schema, trimLocals, walkLocals, input, ret1, pass>>

NextComments ==
    \/ GetCommentsEnter
    \/ GetCommentsVisit
    \/ GetCommentsReturn

SpecComments == InitComments /\ [][NextComments]_vars

\* The comment-mark occurrences under a sequence of sibling nodes, depth first
\* and left to right, the marks of one node in their order.
RECURSIVE CommentOccurrences(_)
CommentOccurrences(nodes) ==
    IF nodes = <<>> THEN <<>>
    ELSE LET n == Head(nodes)
             own == [i \in 1..Len(n.marks) |->
                        IF n.marks[i].type = "comment"
                        THEN <<[id |-> n.marks[i].id, userId |-> n.marks[i].userId,
                                text |-> textContent(n)]>>
                        ELSE <<>>]
         IN Flatten(own) \o CommentOccurrences(n.content) \o CommentOccurrences(Tail(nodes))

\* C7: getComments returns one entry per comment-mark occurrence, in document
\* order and mark order, none for other marks, none dropped for a repeated id,
\* each with the text of the node that carries the mark.
C7_CommentsPerOccurrence ==
    (op = "getComments" /\ pc = "done") => ret = CommentOccurrences(doc.content)

\* One text node with the comment marks "a" and "b": two entries, same text;
\* the same document holds a second node with comment "a".
C7_Witness ==
    /\ op = "getComments" /\ pc = "done"
    /\ doc = Doc(<<Paragraph(<<TextNode(<<"x", "y">>, <<CommentA, CommentB>>)>>),
                   Paragraph(<<TextNode(<<"x">>, <<CommentA>>)>>)>>)
    /\ ret = << [id |-> "a", userId |-> "u1", text |-> <<"x", "y">>],
                [id |-> "b", userId |-> "u2", text |-> <<"x", "y">>],
                [id |-> "a", userId |-> "u1", text |-> <<"x">>] >>

----------------------------------------------------------------------------
(* getTasks, getTasksSummary *)

Para(c) == Paragraph(<<TextNode(<<c>>, <<>>)>>)

TaskChildren ==
    { Para("p"),
      CheckboxList(<<CheckboxItem(FALSE, <<Para("a")>>)>>),
      CheckboxList(<<CheckboxItem(TRUE, <<Para("a"), Para("b")>>),
                     CheckboxItem(FALSE, <<Para("c")>>)>>),
      CheckboxList(<<CheckboxItem(TRUE,
                        <<Para("a"), CheckboxList(<<CheckboxItem(TRUE, <<Para("n")>>)>>)>>),
                     CheckboxItem(FALSE, <<Para("b")>>)>>),
      CheckboxList(<<CheckboxItem(FALSE,
                        <<Para("d"), HeadingNode(1, <<TextNode(<<"h">>, <<>>)>>)>>)>>) }

TaskDocs == { Doc(c) : c \in SeqsUpTo(TaskChildren, MaxChildren) }

InitTasks ==
    /\ op \in {"getTasks", "getTasksSummary"}
    /\ doc \in TaskDocs
    /\ schema = {}
    /\ pc = "call"
    /\ index = 0 /\ start = 0 /\ end = 0 /\ nodeIsEmpty = FALSE
    /\ previouslySeen = <<>> /\ headings = <<>>
    /\ pending = <<>> /\ comments = <<>> /\ tasks = <<>>
    /\ ret = NULL /\ input = doc /\ ret1 = NULL /\ pass = 1

\* lines 157-159 (and line 194: getTasksSummary starts by calling getTasks)
GetTasksEnter ==
    /\ op \in {"getTasks", "getTasksSummary"} /\ pc = "call"
    /\ tasks' = <<>>
    /\ pending' = doc.content
    /\ pc' = "walk"
    /\ UNCHANGED <<op, doc, schema, trimLocals, previouslySeen, headings, comments,
                   ret, input, ret1, pass>>

\* lines 166-177: the task of one list item
TaskOf(listItem) ==
    LET parts == [i \in 1..Len(listItem.content) |->
                    IF listItem.content[i].type = "paragraph"
                    THEN textContent(listItem.content[i]) ELSE <<>>]
    IN [text |-> Flatten(parts), completed |-> listItem.checked]

\* lines 164-179: the tasks the callback pushes for one node
TasksOf(node) ==
    IF node.type = "checkbox_list"
    THEN [i \in 1..Len(node.content) |-> TaskOf(node.content[i])]
    ELSE <<>>

\* A variant of GetTasksVisit whose callback returns false after a checkbox
\* list, so the traversal does not enter the list.
GetTasksVisitNoNested ==
    /\ op \in {"getTasks", "getTasksSummary"} /\ pc = "walk" /\ pending # <<>>
    /\ LET node == Head(pending)
       IN IF ~isBlock(node)
          THEN /\ pending' = Tail(pending)
               /\ tasks' = tasks
          ELSE /\ tasks' = tasks \o TasksOf(node)
               /\ pending' = (IF node.type = "checkbox_list" THEN <<>> ELSE node.content)
                             \o Tail(pending)
    /\ UNCHANGED <<op, doc, schema, pc, trimLocals, previouslySeen, headings, comments,
                   ret, input, ret1, pass>>

\* lines 159-182: the callback on the next node in document order; false for
\* a node that is not a block (its children are skipped), true otherwise
GetTasksVisit ==
    /\ op \in {"getTasks", "getTasksSummary"} /\ pc = "walk" /\ pending # <<>>
    /\ LET node == Head(pending)
       IN IF ~isBlock(node)
          THEN /\ pending' = Tail(pending)
               /\ tasks' = tasks
          ELSE /\ tasks' = tasks \o TasksOf(node)
               /\ pending' = node.content \o Tail(pending)
    /\ UNCHANGED <<op, doc, schema, pc, trimLocals, previouslySeen, headings, comments,
                   ret, input, ret1, pass>>

\* line 184
GetTasksReturn ==
    /\ op = "getTasks" /\ pc = "walk" /\ pending = <<>>
    /\ ret' = tasks
    /\ pc' = "done"
    /\ UNCHANGED <<op, doc, schema, trimLocals, walkLocals, input, ret1, pass>>

\* tasks.filter((t) => t.completed).length
RECURSIVE CountCompleted(_)
CountCompleted(ts) ==
    IF ts = <<>> THEN 0
    ELSE (IF Head(ts).completed THEN 1 ELSE 0) + CountCompleted(Tail(ts))

\* A variant of Summary that counts the tasks still open as completed.
SummaryOfOpen(ts) ==
    [completed |-> Len(ts) - CountCompleted(ts), total |-> Len(ts)]

\* lines 196-199
Summary(ts) ==
    [completed |-> CountCompleted(ts), total |-> Len(ts)]

\* lines 193-200: getTasks has returned to getTasksSummary
GetTasksSummaryReturn ==
    /\ op = "getTasksSummary" /\ pc = "walk" /\ pending = <<>>
    /\ ret' = Summary(tasks)
    /\ pc' = "done"
    /\ UNCHANGED <<op, doc, schema, trimLocals, walkLocals, input, ret1, pass>>

NextTasks ==
    \/ GetTasksEnter
    \/ GetTasksVisit
    \/ GetTasksReturn
    \/ GetTasksSummaryReturn

SpecTasks == InitTasks /\ [][NextTasks]_vars

\* The tasks of the checklist items under a sequence of sibling nodes, in
\* document order of the items: an item, then the items nested inside it.
RECURSIVE ItemsInDocumentOrder(_)
ItemsInDocumentOrder(nodes) ==
    IF nodes = <<>> THEN <<>>
    ELSE LET n == Head(nodes)
         IN (IF n.type = "checkbox_item" THEN <<TaskOf(n)>> ELSE <<>>)
            \o ItemsInDocumentOrder(n.content) \o ItemsInDocumentOrder(Tail(nodes))

\* The same tasks container by container, the containers in document order:
\* all the items of a list, then the lists nested in its items.
RECURSIVE ItemsByContainer(_)
ItemsByContainer(nodes) ==
    IF nodes = <<>> THEN <<>>
    ELSE LET n == Head(nodes)
             own == IF n.type = "checkbox_list"
                    THEN [i \in 1..Len(n.content) |-> TaskOf(n.content[i])] ELSE <<>>
         IN own \o ItemsByContainer(n.content) \o ItemsByContainer(Tail(nodes))

RECURSIVE HasNestedList(_, _)
HasNestedList(nodes, inItem) ==
    \E i \in 1..Len(nodes) :
        \/ inItem /\ nodes[i].type = "checkbox_list"
        \/ HasNestedList(nodes[i].content, inItem \/ nodes[i].type = "checkbox_item")

GetTasksReturned == op = "getTasks" /\ pc = "done"

\* C6 as stated: getTasks returns one task per checklist item in document order
\* of the items, the items of a nested list at the place of their parent item.
C6_TasksInDocumentOrder ==
    GetTasksReturned => ret = ItemsInDocumentOrder(doc.content)

\* C6 amended: one task per checklist item, container by container: the items
\* of a list in their order, the lists in document order, a nested list's items
\* after all items of the list around it; document order of the items when no
\* item holds a list.
C6_TasksByContainer ==
    GetTasksReturned =>
        /\ ret = ItemsByContainer(doc.content)
        /\ Len(ret) = Len(ItemsInDocumentOrder(doc.content))
        /\ ~HasNestedList(doc.content, FALSE) => ret = ItemsInDocumentOrder(doc.content)

\* A list whose first item holds a nested list: the nested item's task comes
\* after the second outer item's.
C6_Witness ==
    /\ GetTasksReturned
    /\ HasNestedList(doc.content, FALSE)
    /\ childCount(doc) = 1
    /\ ret = << [text |-> <<"a">>, completed |-> TRUE],
                [text |-> <<"b">>, completed |-> FALSE],
                [text |-> <<"n">>, completed |-> TRUE] >>

\* C8: the summary's total is the number of tasks getTasks returns for the
\* document, its completed the number of those that are completed, and
\* 0 <= completed <= total.
C8_SummaryConsistent ==
    (op = "getTasksSummary" /\ pc = "done") =>
        LET all == ItemsByContainer(doc.content)
        IN /\ ret.total = Len(all)
           /\ ret.completed = Cardinality({ i \in 1..Len(all) : all[i].completed })
           /\ ret.total = Len(tasks)
           /\ ret.completed = Cardinality({ i \in 1..Len(tasks) : tasks[i].completed })
           /\ 0 <= ret.completed /\ ret.completed <= ret.total

\* A summary of a document with completed and open tasks, a nested one included.
C8_Witness ==
    /\ op = "getTasksSummary" /\ pc = "done"
    /\ HasNestedList(doc.content, FALSE)
    /\ ret.completed >= 2 /\ ret.completed < ret.total

----------------------------------------------------------------------------
(* getHeadings *)

\* The slug of a text: lowercased, punctuation stripped, a space made a hyphen.
SlugChar(c) ==
    CASE c = "I" -> <<"i">>
      [] c = "N" -> <<"n">>
      [] c = "!" -> <<>>
      [] c = " " -> <<"-">>
      [] OTHER -> <<c>>

Slugify(text) == Flatten([i \in 1..Len(text) |-> SlugChar(text[i])])

Digit(d) == CASE d = 0 -> "0" [] d = 1 -> "1" [] d = 2 -> "2" [] d = 3 -> "3" [] d = 4 -> "4"
              [] d = 5 -> "5" [] d = 6 -> "6" [] d = 7 -> "7" [] d = 8 -> "8" [] OTHER -> "9"

RECURSIVE Decimal(_)
Decimal(k) == IF k < 10 THEN <<Digit(k)>> ELSE Decimal(k \div 10) \o <<Digit(k % 10)>>

\* editor/lib/headingToSlug: the slug of the heading's text, with "-<index>"
\* appended for an index other than 0.
headingToSlug(node, idx) ==
    IF idx = 0 THEN Slugify(textContent(node))
    ELSE Slugify(textContent(node)) \o <<"-">> \o Decimal(idx)

Heading(lvl, text) == HeadingNode(lvl, <<TextNode(text, <<>>)>>)

HeadingChildren ==
    { Heading(1, <<"I", "n">>),
      Heading(2, <<"I", "n">>),
      Heading(1, <<"i", "N", "!">>),
      Heading(2, <<"I", "n", "-", "1">>),
      Heading(1, <<"I", "n", " ", "2">>),
      Heading(3, <<"o", "k">>),
      Para("p"),
      CheckboxList(<<CheckboxItem(FALSE, <<Para("a"), Heading(1, <<"I", "n">>)>>)>>) }

HeadingDocs == { Doc(c) : c \in SeqsUpTo(HeadingChildren, MaxChildren) }

InitHeadings ==
    /\ op = "getHeadings"
    /\ doc \in HeadingDocs
    /\ schema = {}
    /\ pc = "call"
    /\ index = 0 /\ start = 0 /\ end = 0 /\ nodeIsEmpty = FALSE
    /\ previouslySeen = <<>> /\ headings = <<>>
    /\ pending = <<>> /\ comments = <<>> /\ tasks = <<>>
    /\ ret = NULL /\ input = doc /\ ret1 = NULL /\ pass = 1

\* previouslySeen[id], 0 standing for undefined (undefined > 0 is false)
Seen(seen, id) == IF id \in DOMAIN seen THEN seen[id] ELSE 0

\* lines 226-227
Record(seen, id) ==
    [k \in DOMAIN seen \cup {id} |-> IF k = id THEN Seen(seen, id) + 1 ELSE seen[k]]

\* lines 209-212: doc.forEach starts at the first child of doc
GetHeadingsEnter ==
    /\ op = "getHeadings" /\ pc = "call"
    /\ headings' = <<>>
    /\ previouslySeen' = <<>>
    /\ pending' = doc.content
    /\ pc' = "each"
    /\ UNCHANGED <<op, doc, schema, trimLocals, comments, tasks, ret, input, ret1, pass>>

\* A variant of GetHeadingsEach that records the final name, not the base id.
GetHeadingsEachByName ==
    /\ op = "getHeadings" /\ pc = "each" /\ pending # <<>>
    /\ LET node == Head(pending)
           id == headingToSlug(node, 0)
           name == IF Seen(previouslySeen, id) > 0
                   THEN headingToSlug(node, Seen(previouslySeen, id)) ELSE id
       IN IF node.type = "heading"
          THEN /\ previouslySeen' = Record(previouslySeen, name)
               /\ headings' = Append(headings,
                     [title |-> textContent(node), level |-> node.level, id |-> name])
          ELSE UNCHANGED <<previouslySeen, headings>>
    /\ pending' = Tail(pending)
    /\ UNCHANGED <<op, doc, schema, pc, trimLocals, comments, tasks, ret, input, ret1, pass>>

\* lines 212-235: the callback on the next top-level child
GetHeadingsEach ==
    /\ op = "getHeadings" /\ pc = "each" /\ pending # <<>>
    /\ LET node == Head(pending)
           id == headingToSlug(node, 0)
           name == IF Seen(previouslySeen, id) > 0
                   THEN headingToSlug(node, Seen(previouslySeen, id)) ELSE id
       IN IF node.type = "heading"
          THEN /\ previouslySeen' = Record(previouslySeen, id)
               /\ headings' = Append(headings,
                     [title |-> textContent(node), level |-> node.level, id |-> name])
          ELSE UNCHANGED <<previouslySeen, headings>>
    /\ pending' = Tail(pending)
    /\ UNCHANGED <<op, doc, schema, pc, trimLocals, comments, tasks, ret, input, ret1, pass>>

\* line 236
GetHeadingsReturn ==
    /\ op = "getHeadings" /\ pc = "each" /\ pending = <<>>
    /\ ret' = headings
    /\ pc' = "done"
    /\ UNCHANGED <<op, doc, schema, trimLocals, walkLocals, input, ret1, pass>>

NextHeadings ==
    \/ GetHeadingsEnter
    \/ GetHeadingsEach
    \/ GetHeadingsReturn

SpecHeadings == InitHeadings /\ [][NextHeadings]_vars

GetHeadingsReturned == op = "getHeadings" /\ pc = "done"

\* The top-level headings of a document, in document order.
TopHeadings(d) == SelectSeq(d.content, LAMBDA n : n.type = "heading")

\* C1: the ids of the headings getHeadings returns are pairwise distinct.
C1_HeadingIdsDistinct ==
    GetHeadingsReturned =>
        \A i, j \in 1..Len(ret) : i # j => ret[i].id # ret[j].id

\* C10: getHeadings returns the top-level headings in document order; a heading
\* whose base slug k earlier top-level headings share gets the base slug for
\* k = 0 and the slug with disambiguation parameter k otherwise; the count is
\* kept per base slug.
C10_HeadingIdByBaseCount ==
    GetHeadingsReturned =>
        LET hs == TopHeadings(doc)
            base(i) == Slugify(textContent(hs[i]))
            earlier(i) == Cardinality({ j \in 1..(i - 1) : base(j) = base(i) })
        IN /\ Len(ret) = Len(hs)
           /\ \A i \in 1..Len(hs) :
                 /\ ret[i].title = textContent(hs[i])
                 /\ ret[i].level = hs[i].level
                 /\ ret[i].id = IF earlier(i) = 0 THEN base(i)
                                ELSE base(i) \o <<"-">> \o Decimal(earlier(i))
           /\ \A id \in DOMAIN previouslySeen :
                 previouslySeen[id] = Cardinality({ i \in 1..Len(hs) : base(i) = id })

\* Three headings of the same text: the base slug, then "-1", then "-2".
C10_Witness ==
    /\ GetHeadingsReturned
    /\ doc = Doc(<<Heading(1, <<"I", "n">>), Heading(1, <<"I", "n">>), Heading(1, <<"I", "n">>)>>)
    /\ ret = << [title |-> <<"I", "n">>, level |-> 1, id |-> <<"i", "n">>],
                [title |-> <<"I", "n">>, level |-> 1, id |-> <<"i", "n", "-", "1">>],
                [title |-> <<"I", "n">>, level |-> 1, id |-> <<"i", "n", "-", "2">>] >>

====
